---- MODULE Spec2Model ----
(***************************************************************************)
(* Verification model of the Turbo constraint solver (thibaultfalque/turbo):*)
(* the interval store (Interval, VStore), the monotone best-bound cell, and *)
(* the parallel search kernel (search_k / solve).                           *)
(***************************************************************************)
EXTENDS Integers, Sequences, FiniteSets, TLC

\* ------------------------------------------------------------------ bounds
\* Number of slots of the stores of the model (index 0 is the builder's
\* fake variable, ModelBuilder() in src/unnamed/part_000:76-80).
StoreSize == 2
\* Bounds of intervals and operands range over 0..MaxVal.
MaxVal == 1

\* Workers (blocks) of the kernel; OR_NODES is 48 in solver.cu:31.
OR_NODES == 2
\* Helper threads of a block; AND_NODES is 256 in solver.cu:32.
AND_NODES == 2
\* Bounds requested by concurrent callers range over 0..MaxBound.
MaxBound == 2
\* The root is cut into 2^SUB_PROBLEMS_POWER subproblems; 12 in solver.cu:33.
SUB_PROBLEMS_POWER == 1
\* Branching variables of the problems handed to solve (slots 1..NumVars).
NumVars == 2
\* Their declared domains are [0, MaxDom - 1] or [0, MaxDom].
MaxDom == 2

\* limit_min / limit_max                      (cuda_helper.hpp:52-53)
limit_min == -2147483647 - 1
limit_max == 2147483647

Vals == 0..MaxVal

Workers == 1..OR_NODES

Helpers == 1..AND_NODES

Bounds == 0..MaxBound

VARIABLES
    store,      \* the VStore under operation: [data, top]
    last,       \* the last VStore call: its name, operands and return value
    pc,         \* where each thread stands in the function it runs
    best_bound, \* the shared best-bound Interval (solver.cu:113)
    prev_ub,    \* store_min_ub's local prev_ub, per caller
    new_ub,     \* store_min_ub's argument, per caller
    request,    \* the update each helper thread runs: [op, x]
    history,    \* what the callers asked for and how often a write took effect
    problem,    \* solve's arguments: [root, props, branching_vars, minimize_x]
    decomposition,      \* __device__ int decomposition (solver.cu:29)
    curr_decomposition, \* __shared__ int curr_decomposition, per block
    trees,      \* per block, what its TreeAndPar holds after search: [statistics, best]
    stats,      \* Array<Statistics>* stats, per block
    best_sols,  \* Array<VStore>* best_sols, per block
    statistics, \* solve's joined Statistics
    searched,   \* per decomposition index, the blocks that passed it to search
    builder,    \* the ModelBuilder: [var2idx, idx2var, propagators, minimize_obj, status, ndebug]
    stop        \* whether the driver asked the blocks to stop (the timeout of solve)

storevars == <<store, last>>

minubvars == <<best_bound, prev_ub, new_ub>>

kernelvars == <<problem, decomposition, curr_decomposition, trees, stats, best_sols, statistics, searched>>

vars == <<store, last, pc, best_bound, prev_ub, new_ub, request, history, problem, decomposition, curr_decomposition, trees, stats, best_sols, statistics, searched, builder, stop>>

\* ---------------------------------------------------------------- Interval
\* Interval(int l, int u)                     (cuda_helper.hpp:155)
Interval(l, u) == [lb |-> l, ub |-> u]

\* Interval::is_assigned                      (cuda_helper.hpp:186-188)
is_assigned(itv) == itv.lb = itv.ub

\* Interval::is_top                           (cuda_helper.hpp:190-192)
itv_is_top(itv) == itv.lb > itv.ub

\* Every interval with bounds in Vals, the empty ones included.
Intervals == [lb : Vals, ub : Vals]

\* ------------------------------------------------------------------ VStore
\* VStore::size                               (cuda_helper.hpp:385)
size(s) == Cardinality(DOMAIN s.data)

\* VStore::is_top()                           (cuda_helper.hpp:287-289)
is_top(s) == s.top

\* VStore::lb / VStore::ub                    (cuda_helper.hpp:377-383)
lb(s, i) == s.data[i].lb
ub(s, i) == s.data[i].ub

\* Mutant of update_top: the flag follows the interval instead of latching.
update_top_follow(s, x) == [s EXCEPT !.top = itv_is_top(s.data[x])]

\* VStore::update_top                         (cuda_helper.hpp:324-328)
update_top(s, x) == IF itv_is_top(s.data[x]) THEN [s EXCEPT !.top = TRUE] ELSE s

\* VStore::dom                                (cuda_helper.hpp:333-337)
dom(s, x, itv) == update_top([s EXCEPT !.data[x] = itv], x)

\* Mutant of update_lb: the bound is stored without the comparison.
update_lb_nocheck(s, i, x) == [store |-> update_top([s EXCEPT !.data[i].lb = x], i), ret |-> TRUE]

\* VStore::update_lb                          (cuda_helper.hpp:339-347)
update_lb(s, i, x) == IF s.data[i].lb < x THEN [store |-> update_top([s EXCEPT !.data[i].lb = x], i), ret |-> TRUE] ELSE [store |-> s, ret |-> FALSE]

\* VStore::update_ub                          (cuda_helper.hpp:349-357)
update_ub(s, i, x) == IF s.data[i].ub > x THEN [store |-> update_top([s EXCEPT !.data[i].ub = x], i), ret |-> TRUE] ELSE [store |-> s, ret |-> FALSE]

\* Mutant of update: `=` instead of `|=`, the lower bound's change bit is lost.
update_lost_bit(s, i, itv) == LET r1 == update_lb(s, i, itv.lb)
                                  r2 == update_ub(r1.store, i, itv.ub)
                              IN  [store |-> r2.store, ret |-> r2.ret]

\* VStore::update                             (cuda_helper.hpp:359-363)
update(s, i, itv) == LET r1 == update_lb(s, i, itv.lb)
                         r2 == update_ub(r1.store, i, itv.ub)
                     IN  [store |-> r2.store, ret |-> r1.ret \/ r2.ret]

\* VStore::assign                             (cuda_helper.hpp:365-367)
assign(s, i, v) == update(s, i, Interval(v, v))

\* VStore::VStore(const VStore&): data is copied, top starts false
\*                                            (cuda_helper.hpp:264-265)
VStoreCopy(other) == [data |-> other.data, top |-> FALSE]

\* Mutant of reset: the top flag is not overwritten.
reset_keep_top(s, other) == [data |-> [i \in DOMAIN s.data |-> other.data[i]], top |-> s.top]

\* VStore::reset, past its assertion          (cuda_helper.hpp:269-276)
reset(s, other) == [data |-> [i \in DOMAIN s.data |-> Interval(other.data[i].lb, other.data[i].ub)], top |-> is_top(other)]

\* ModelBuilder::build_store: a fresh store, then dom on every variable
\*                                            (part_000:104-113)
RECURSIVE build_from(_, _, _)
build_from(s, decl, i) == IF i >= size(s) THEN s ELSE build_from(dom(s, i, decl[i]), decl, i + 1)

build_store(decl) == build_from([data |-> [i \in DOMAIN decl |-> Interval(0, MaxVal)], top |-> FALSE], decl, 0)

\* ------------------------------------------------------- store operations
NoStore == [data |-> <<>>, top |-> FALSE]

Call(op, v, lo, hi, ret, other) == [op |-> op, v |-> v, lo |-> lo, hi |-> hi, ret |-> ret, other |-> other]

\* No assertion has aborted the program.
Running == last.op # "abort"

\* Values of the variables a specification does not use.
NoHistory == [init |-> 0, asked |-> {}, writes |-> 0]

IdleMinUb == best_bound = Interval(limit_min, limit_max) /\ prev_ub = <<>> /\ new_ub = <<>>

IdleKernel ==
    /\ problem = <<>> /\ decomposition = 0 /\ curr_decomposition = <<>> /\ trees = <<>>
    /\ stats = <<>> /\ best_sols = <<>> /\ statistics = <<>> /\ searched = <<>>

IdleBuilder == builder = <<>>

IdleStop == stop = FALSE

\* A VStore call touches the store alone.
StoreFrame == UNCHANGED <<pc, request, history, minubvars, kernelvars, builder, stop>>

\* The store build_store returns: slot 0 is "zero_var(fake)" with domain
\* [0, 0] (part_000:79), the other slots hold the declared domains.
StoreInit ==
    /\ \E decl \in [0..(StoreSize - 1) -> Intervals] : decl[0] = Interval(0, 0) /\ store = build_store(decl)
    /\ last = Call("build_store", 0, 0, 0, FALSE, NoStore)
    /\ pc = <<>> /\ request = <<>> /\ history = NoHistory
    /\ IdleMinUb /\ IdleKernel /\ IdleBuilder /\ IdleStop

Dom ==
    /\ Running /\ StoreFrame
    /\ \E x \in DOMAIN store.data, itv \in Intervals :
        /\ store' = dom(store, x, itv)
        /\ last' = Call("dom", x, 0, 0, FALSE, NoStore)

UpdateLb ==
    /\ Running /\ StoreFrame
    /\ \E i \in DOMAIN store.data, x \in Vals :
        LET r == update_lb(store, i, x) IN
        /\ store' = r.store
        /\ last' = Call("update_lb", i, x, x, r.ret, NoStore)

UpdateUb ==
    /\ Running /\ StoreFrame
    /\ \E i \in DOMAIN store.data, x \in Vals :
        LET r == update_ub(store, i, x) IN
        /\ store' = r.store
        /\ last' = Call("update_ub", i, x, x, r.ret, NoStore)

Update ==
    /\ Running /\ StoreFrame
    /\ \E i \in DOMAIN store.data, itv \in Intervals :
        LET r == update(store, i, itv) IN
        /\ store' = r.store
        /\ last' = Call("update", i, itv.lb, itv.ub, r.ret, NoStore)

Assign ==
    /\ Running /\ StoreFrame
    /\ \E i \in DOMAIN store.data, v \in Vals :
        LET r == assign(store, i, v) IN
        /\ store' = r.store
        /\ last' = Call("assign", i, v, v, r.ret, NoStore)

\* Some interval of the store is empty.
SomeEmpty(s) == \E i \in DOMAIN s.data : itv_is_top(s.data[i])

\* The stores handed to reset are stores that the builder, dom and the
\* updates produce: slot 0 is the fake variable [0, 0], every other slot
\* holds q, and an empty interval comes with top. ShortSources are one slot
\* shorter, all [0, 0]: on them the assertion fails.
ResetSources == {s \in {[data |-> [i \in 0..(StoreSize - 1) |-> IF i = 0 THEN Interval(0, 0) ELSE q], top |-> t] : q \in Intervals, t \in BOOLEAN} : SomeEmpty(s) => s.top}

ShortSources == {[data |-> [i \in 0..(StoreSize - 2) |-> Interval(0, 0)], top |-> t] : t \in BOOLEAN}

\* a.reset(b): the assertion size() == other.size() passes.
Reset ==
    \E other \in ResetSources \cup ShortSources :
        /\ Running /\ StoreFrame
        /\ size(store) = size(other)
        /\ store' = reset(store, other)
        /\ last' = Call("reset", 0, 0, 0, FALSE, other)

\* a.reset(b): assert(size() == other.size()) fails and the program aborts
\*                                            (cuda_helper.hpp:270)
ResetAbort ==
    \E other \in ResetSources \cup ShortSources :
        /\ Running /\ StoreFrame
        /\ size(store) # size(other)
        /\ store' = store
        /\ last' = Call("abort", 0, 0, 0, FALSE, other)

\* The copy constructor: the model goes on with the clone, and remembers
\* the original in last.other.
Clone ==
    /\ Running /\ StoreFrame
    /\ store' = VStoreCopy(store)
    /\ last' = Call("clone", 0, 0, 0, FALSE, store)

StoreNext == Dom \/ UpdateLb \/ UpdateUb \/ Update \/ Assign \/ Reset \/ ResetAbort \/ Clone

SpecStore == StoreInit /\ [][StoreNext]_vars

\* ------------------------------------------------- Interval::store_min_ub
\* Smallest / largest element of a non-empty set of integers.
MinOf(S) == CHOOSE x \in S : \A y \in S : x <= y
MaxOf(S) == CHOOSE x \in S : \A y \in S : x >= y

\* Mutant of compare_exchange: a plain store, whatever u holds.
exchange_blind(u, expected, desired) == [ok |-> TRUE, u |-> desired, expected |-> expected]

\* u.compare_exchange_weak(prev_ub, new_ub) when it does not fail spuriously:
\* u is written only if it still holds prev_ub, else prev_ub is reloaded
\*                                            (cuda_helper.hpp:177)
compare_exchange(u, expected, desired) == IF u = expected THEN [ok |-> TRUE, u |-> desired, expected |-> expected] ELSE [ok |-> FALSE, u |-> u, expected |-> u]

\* The store's variables and the helpers' are not touched by store_min_ub.
MinUbFrame == UNCHANGED <<store, last, request, kernelvars, builder, stop>>

\* Pointer<Interval>(Interval()): the best bound starts unbounded
\*                                            (solver.cu:113, cuda_helper.hpp:153)
MinUbInit ==
    /\ best_bound = Interval(limit_min, limit_max)
    /\ pc = [w \in Workers |-> "idle"]
    /\ prev_ub = [w \in Workers |-> 0]
    /\ new_ub = [w \in Workers |-> 0]
    /\ history = [init |-> limit_max, asked |-> {}, writes |-> 0]
    /\ store = NoStore /\ last = Call("none", 0, 0, 0, FALSE, NoStore) /\ request = <<>>
    /\ IdleKernel /\ IdleBuilder /\ IdleStop

\* int prev_ub = ub();                        (cuda_helper.hpp:174-175)
MinUbLoad(w) ==
    /\ pc[w] = "idle" /\ MinUbFrame
    /\ \E x \in Bounds :
        /\ new_ub' = [new_ub EXCEPT ![w] = x]
        /\ history' = [history EXCEPT !.asked = @ \cup {x}]
    /\ prev_ub' = [prev_ub EXCEPT ![w] = best_bound.ub]
    /\ pc' = [pc EXCEPT ![w] = "loop"]
    /\ UNCHANGED best_bound

\* while(prev_ub > new_ub && !u.compare_exchange_weak(prev_ub, new_ub)) {}
\* one evaluation of the condition that reaches the exchange
\*                                            (cuda_helper.hpp:176-178)
MinUbCas(w) ==
    /\ pc[w] = "loop" /\ MinUbFrame
    /\ prev_ub[w] > new_ub[w]
    /\ LET r == compare_exchange(best_bound.ub, prev_ub[w], new_ub[w]) IN
        /\ best_bound' = [best_bound EXCEPT !.ub = r.u]
        /\ prev_ub' = [prev_ub EXCEPT ![w] = r.expected]
        /\ pc' = [pc EXCEPT ![w] = IF r.ok THEN "idle" ELSE "loop"]
        /\ history' = [history EXCEPT !.writes = IF r.ok THEN @ + 1 ELSE @]
    /\ UNCHANGED new_ub

\* The weak exchange fails although u holds prev_ub: nothing is written,
\* prev_ub is reloaded with the same value     (cuda_helper.hpp:177)
MinUbSpurious(w) ==
    /\ pc[w] = "loop" /\ MinUbFrame
    /\ prev_ub[w] > new_ub[w]
    /\ best_bound.ub = prev_ub[w]
    /\ prev_ub' = [prev_ub EXCEPT ![w] = best_bound.ub]
    /\ UNCHANGED <<best_bound, new_ub, pc, history>>

\* prev_ub > new_ub is false: the loop ends   (cuda_helper.hpp:176)
MinUbReturn(w) ==
    /\ pc[w] = "loop" /\ MinUbFrame
    /\ ~(prev_ub[w] > new_ub[w])
    /\ pc' = [pc EXCEPT ![w] = "idle"]
    /\ UNCHANGED <<best_bound, prev_ub, new_ub, history>>

MinUbNext == \E w \in Workers : MinUbLoad(w) \/ MinUbCas(w) \/ MinUbSpurious(w) \/ MinUbReturn(w)

SpecMinUb == MinUbInit /\ [][MinUbNext]_vars

\* Every store_min_ub call has returned.
AllReturned == \A w \in Workers : pc[w] = "idle"

\* C3: under any interleaving of store_min_ub calls the upper bound never
\* increases, a write that takes effect strictly lowers it, and once all
\* calls have returned it is the minimum of its initial value and all the
\* candidates.
C3_MinUbMonotone == /\ [][/\ best_bound'.ub <= best_bound.ub
                          /\ history'.writes # history.writes => best_bound'.ub < best_bound.ub]_vars
                    /\ [](AllReturned => best_bound.ub = MinOf({history.init} \cup history.asked))

\* A caller holds a stale prev_ub above its candidate while another caller
\* has already published a lower bound: its exchange must fail and give up.
C3_Witness == \E w \in Workers : /\ pc[w] = "loop"
                                  /\ prev_ub[w] > new_ub[w]
                                  /\ best_bound.ub < new_ub[w]
                                  /\ history.writes >= 2

\* ------------------------------------- helpers sharing one worker's store
\* The variable the helpers of the block narrow.
SharedVar == StoreSize - 1

\* store_min_ub and the single-thread call record are not involved.
HelperFrame == UNCHANGED <<last, request, history, minubvars, kernelvars, builder, stop>>

\* The block's store before the sweep: every slot is [0, MaxBound]; each
\* helper thread is about to run update_lb or update_ub on SharedVar.
HelperInit ==
    /\ store = [data |-> [i \in 0..(StoreSize - 1) |-> Interval(0, MaxBound)], top |-> FALSE]
    /\ request \in [Helpers -> [op : {"update_lb", "update_ub"}, x : Bounds]]
    /\ pc = [h \in Helpers |-> "call"]
    /\ last = Call("none", 0, 0, 0, FALSE, NoStore)
    /\ history = NoHistory
    /\ IdleMinUb /\ IdleKernel /\ IdleBuilder /\ IdleStop

\* if (data[i].lb() < lb)  /  if (data[i].ub() > ub): a relaxed load and the
\* comparison                                 (cuda_helper.hpp:340, 350)
HelperCompare(h) ==
    /\ pc[h] = "call" /\ HelperFrame
    /\ LET narrower == IF request[h].op = "update_lb"
                        THEN lb(store, SharedVar) < request[h].x
                        ELSE ub(store, SharedVar) > request[h].x
       IN  pc' = [pc EXCEPT ![h] = IF narrower THEN "store" ELSE "done"]
    /\ UNCHANGED store

\* data[i].store_lb(lb)  /  data[i].store_ub(ub): a relaxed store
\*                                            (cuda_helper.hpp:342, 352, 166-172)
HelperStore(h) ==
    /\ pc[h] = "store" /\ HelperFrame
    /\ store' = IF request[h].op = "update_lb"
                 THEN [store EXCEPT !.data[SharedVar].lb = request[h].x]
                 ELSE [store EXCEPT !.data[SharedVar].ub = request[h].x]
    /\ pc' = [pc EXCEPT ![h] = "top"]

\* update_top(i); return true;                (cuda_helper.hpp:343-344, 353-354)
HelperUpdateTop(h) ==
    /\ pc[h] = "top" /\ HelperFrame
    /\ store' = update_top(store, SharedVar)
    /\ pc' = [pc EXCEPT ![h] = "done"]

HelperNext == \E h \in Helpers : HelperCompare(h) \/ HelperStore(h) \/ HelperUpdateTop(h)

SpecHelpers == HelperInit /\ [][HelperNext]_vars

\* The bounds the helpers asked for.
AskedLb == {request[h].x : h \in {g \in Helpers : request[g].op = "update_lb"}}
AskedUb == {request[h].x : h \in {g \in Helpers : request[g].op = "update_ub"}}

\* C4: helpers calling update_lb / update_ub on one variable of a shared
\* store never move a bound in the widening direction, and when all have
\* returned lb is the maximum of the old lb and the requested lower bounds
\* and ub the minimum of the old ub and the requested upper bounds.
C4_HelpersConfluent == [][/\ lb(store', SharedVar) >= lb(store, SharedVar)
                          /\ ub(store', SharedVar) <= ub(store, SharedVar)
                          /\ (\A h \in Helpers : pc'[h] = "done") =>
                                /\ lb(store', SharedVar) = MaxOf({0} \cup AskedLb)
                                /\ ub(store', SharedVar) = MinOf({MaxBound} \cup AskedUb)]_vars

\* ------------------------------------------------------------ store claims
NarrowOps == {"update_lb", "update_ub", "update", "assign"}

WriteOps == {"dom"} \cup NarrowOps

\* C5: along every sequence of update_lb, update_ub, update and assign calls
\* on a store, lb(v) never decreases and ub(v) never increases, for every v.
C5_MonotoneNarrowing == [][last'.op \in NarrowOps => \A v \in DOMAIN store.data : lb(store', v) >= lb(store, v) /\ ub(store', v) <= ub(store, v)]_vars

\* An assign that moved both bounds of its variable.
C5_Witness == last.op = "assign" /\ last.ret /\ store.data[last.v] = Interval(last.lo, last.lo) /\ last.lo = MaxVal

\* C6: once is_top() holds it still holds after dom, update_lb, update_ub,
\* update and assign; a step of the same store that clears it is a reset
\* (the clone is another store).
C6_TopSticky == [][(is_top(store) /\ ~is_top(store') /\ last'.op # "clone") => (last'.op = "reset" /\ last'.op \notin WriteOps)]_vars

\* A dom on a top store made every interval non-empty, and top still holds.
C6_Witness == last.op = "dom" /\ is_top(store) /\ ~SomeEmpty(store)

\* C7: after a dom, update_lb, update_ub, update or assign on v that leaves
\* lb(v) > ub(v), is_top() holds.
C7_EmptySetsTop == (last.op \in WriteOps /\ itv_is_top(store.data[last.v])) => is_top(store)

\* C8: a clone has the length, the intervals and the top flag of its original,
\* so "some interval is empty => is_top()" carries over to it.
C8_CloneEqual == last.op = "clone" => (/\ size(store) = size(last.other)
                                       /\ store.data = last.other.data
                                       /\ is_top(store) = is_top(last.other)
                                       /\ ((SomeEmpty(last.other) => is_top(last.other)) => (SomeEmpty(store) => is_top(store))))

\* C9: a.reset(b) takes effect only when the sizes agree (otherwise the
\* assertion aborts, a untouched); afterwards a holds b's intervals and b's
\* top flag whatever a held, and a's length is unchanged.
C9_Reset == [][/\ last'.op = "reset" => (/\ size(store) = size(last'.other)
                                         /\ \A i \in DOMAIN store'.data : store'.data[i] = last'.other.data[i]
                                         /\ is_top(store') = is_top(last'.other)
                                         /\ DOMAIN store'.data = DOMAIN store.data)
               /\ last'.op = "abort" => (size(store) # size(last'.other) /\ store' = store)
               /\ size(store') = size(store)]_vars

\* A reset took both slots and the flag of a source that is top although
\* none of its intervals is empty.
C9_Witness == last.op = "reset" /\ is_top(store) /\ ~SomeEmpty(store) /\ store.data[0] # store.data[StoreSize - 1]

\* C10: update_lb returns x > lb(v), update_ub returns x < ub(v), update the
\* disjunction; on false the store is unchanged, on true only slot v (and
\* possibly top) changed.
C10_ChangedBit == [][last'.op \in {"update_lb", "update_ub", "update"} =>
                      LET v == last'.v IN
                      /\ last'.op = "update_lb" => (last'.ret <=> last'.lo > lb(store, v))
                      /\ last'.op = "update_ub" => (last'.ret <=> last'.hi < ub(store, v))
                      /\ last'.op = "update" => (last'.ret <=> (last'.lo > lb(store, v) \/ last'.hi < ub(store, v)))
                      /\ ~last'.ret => store' = store
                      /\ last'.ret => \A j \in DOMAIN store.data \ {v} : store'.data[j] = store.data[j]]_vars

\* An update that raised the lower bound only and reported the change.
C10_Witness == last.op = "update" /\ last.ret /\ lb(store, last.v) = last.lo /\ ub(store, last.v) < last.hi

\* ------------------------------------------------------------- Statistics
\* Statistics(): Statistics(0, 0, false, xcsp): the counters start at 0,
\* eps_num_subproblems at 1, exhaustive at true (vstore.cuh:161-170);
\* best_bound starts at -1, the value solver.cu:78 reads as "no solution".
NewStatistics == [variables |-> 0, constraints |-> 0, optimization |-> FALSE,
                  duration |-> 0, interpretation_duration |-> 0,
                  nodes |-> 0, fails |-> 0, solutions |-> 0, depth_max |-> 0, exhaustive |-> TRUE,
                  eps_solved_subproblems |-> 0, eps_num_subproblems |-> 1, eps_skipped_subproblems |-> 0,
                  num_blocks_done |-> 0, fixpoint_iterations |-> 0,
                  eliminated_variables |-> 0, eliminated_formulas |-> 0,
                  search_time |-> 0, propagation_time |-> 0, xcsp |-> FALSE,
                  best_bound |-> -1]

\* The best_bound part of join: the smaller of the two, -1 standing for none.
join_best_bound(a, b) == IF a = -1 THEN b ELSE IF b = -1 THEN a ELSE MinOf({a, b})

\* Statistics::join: a.join(b) updates a in place; the fields it does not
\* name (variables, constraints, optimization, eps_num_subproblems,
\* eliminated_variables, eliminated_formulas, xcsp) stay a's. The two double
\* sums are kept exact.                       (vstore.cuh:176-190)
join(a, b) == [a EXCEPT !.duration = MaxOf({@, b.duration}),
                        !.interpretation_duration = MaxOf({@, b.interpretation_duration}),
                        !.nodes = @ + b.nodes,
                        !.fails = @ + b.fails,
                        !.solutions = @ + b.solutions,
                        !.depth_max = MaxOf({@, b.depth_max}),
                        !.exhaustive = @ /\ b.exhaustive,
                        !.eps_solved_subproblems = @ + b.eps_solved_subproblems,
                        !.eps_skipped_subproblems = @ + b.eps_skipped_subproblems,
                        !.num_blocks_done = @ + b.num_blocks_done,
                        !.fixpoint_iterations = @ + b.fixpoint_iterations,
                        !.search_time = @ + b.search_time,
                        !.propagation_time = @ + b.propagation_time,
                        !.best_bound = join_best_bound(@, b.best_bound)]

\* --------------------------------------------------- propagation and search
\* Temporal x + k <= y: lb(y) := max(lb(y), lb(x) + k), then
\* ub(x) := min(ub(x), ub(y) - k); changed if either narrowed.
propagate(s, p) == LET r1 == update_lb(s, p.y, lb(s, p.x) + p.k)
                       r2 == update_ub(r1.store, p.x, ub(r1.store, p.y) - p.k)
                   IN  [store |-> r2.store, ret |-> r1.ret \/ r2.ret]

\* One sweep over the propagators in registration order, cut when the store
\* becomes top.
RECURSIVE sweep(_, _, _, _)
sweep(s, props, i, changed) == IF i > Len(props) \/ is_top(s) THEN [store |-> s, ret |-> changed] ELSE LET r == propagate(s, props[i]) IN sweep(r.store, props, i + 1, changed \/ r.ret)

\* Sweeps until one reports no change or the store is top.
RECURSIVE fixpoint(_, _)
fixpoint(s, props) == LET r == sweep(s, props, 1, FALSE) IN IF is_top(r.store) \/ ~r.ret THEN r.store ELSE fixpoint(r.store, props)

\* w: the number of values of the interval (the reading under which the
\* split of [0,1] is [0,0] | [1,1]).
width(itv) == itv.ub - itv.lb + 1

\* The left half (lb .. lb + floor(w/2) - 1) narrowed into the current store.
left_half(itv) == Interval(itv.lb, itv.lb + (width(itv) \div 2) - 1)

\* The right half (lb + ceil(w/2) .. ub) pushed on the stack.
right_half(itv) == Interval(itv.lb + ((width(itv) + 1) \div 2), itv.ub)

\* The prefix of subproblem d: bit k of d chooses the left (0) or the right
\* (1) half of the k-th branching variable, for k < decomposition_size.
RECURSIVE apply_prefix(_, _, _, _, _)
apply_prefix(s, bvars, d, dsize, k) == IF k >= dsize \/ k >= Len(bvars) THEN s ELSE LET v == bvars[k + 1] IN apply_prefix(update(s, v, IF (d \div (2 ^ k)) % 2 = 0 THEN left_half(s.data[v]) ELSE right_half(s.data[v])).store, bvars, d, dsize, k + 1)

\* Interval::store_min_ub run alone: the upper bound only goes down
\*                                            (cuda_helper.hpp:174-179)
store_min_ub(itv, x) == IF x < itv.ub THEN [itv EXCEPT !.ub = x] ELSE itv

\* A solution: solutions + 1; when optimizing and the objective's upper bound
\* improves on the shared bound, publish obj - 1 and snapshot the store.
on_solution(c, acc, pb) == LET counted == [acc EXCEPT !.stats.solutions = @ + 1]
                               obj == ub(c, pb.minimize_x)
                           IN  IF pb.minimize_x # 0 /\ obj - 1 < acc.bound.ub
                               THEN [stats |-> [counted.stats EXCEPT !.best_bound = obj], bound |-> store_min_ub(acc.bound, obj - 1), best |-> reset(acc.best, c)]
                               ELSE counted

\* The main loop of the search tree: fixpoint; on top, fail and pop; on all
\* branching variables assigned, a solution and pop; otherwise split the first
\* unassigned branching variable. Popping restores the snapshot and continues
\* at the right half.
RECURSIVE run(_, _, _, _)
RECURSIVE backtrack(_, _, _)
run(cur, stack, acc, pb) == LET c == fixpoint(cur, pb.props)
                                open == {i \in 1..Len(pb.branching_vars) : ~is_assigned(c.data[pb.branching_vars[i]])}
                                v == pb.branching_vars[MinOf(open)]
                            IN  IF is_top(c) THEN backtrack(stack, [acc EXCEPT !.stats.fails = @ + 1], pb)
                                ELSE IF open = {} THEN backtrack(stack, on_solution(c, acc, pb), pb)
                                ELSE run(update(c, v, left_half(c.data[v])).store,
                                         <<[store |-> c, v |-> v, right |-> right_half(c.data[v])]>> \o stack,
                                         [acc EXCEPT !.stats.nodes = @ + 1, !.stats.depth_max = MaxOf({@, Len(stack) + 1})], pb)

backtrack(stack, acc, pb) == IF stack = <<>> THEN acc ELSE run(update(Head(stack).store, Head(stack).v, Head(stack).right).store, Tail(stack), acc, pb)

\* TreeAndPar::search(tid, stride, root, curr_decomposition, decomposition_size):
\* the current store is reset to the root, the prefix applied, the main loop
\* run to the end of the subtree. Yields the subtree's statistics, the shared
\* bound and the tree's best snapshot.
search(pb, best, bound, d, dsize) == run(apply_prefix(reset(VStoreCopy(pb.root), pb.root), pb.branching_vars, d, dsize, 0), <<>>, [stats |-> NewStatistics, bound |-> bound, best |-> best], pb)

\* ------------------------------------------------------ search_k and solve
\* int sub_problems = pow(2, SUB_PROBLEMS_POWER);      (solver.cu:58)
sub_problems == 2 ^ SUB_PROBLEMS_POWER

\* Thread 0 is the host thread inside solve; 1..OR_NODES are the blocks.
Host == 0

\* Indices the counter can hand out in one launch, and a margin past them.
Indices == 0..(sub_problems + OR_NODES)

\* Mutant of in_range: the loop also runs for the index 2^P.
in_range_inclusive(c) == c <= sub_problems

\* while(curr_decomposition < sub_problems)            (solver.cu:73)
in_range(c) == c < sub_problems

\* atomicAdd(&decomposition, 1): the old value is returned (solver.cu:70, 82)
atomicAdd(d, n) == [old |-> d, new |-> d + n]

\* The declarations handed to ModelBuilder: the fake variable, then the
\* branching variables, all over [0, u].
Decl(u) == [i \in 0..NumVars |-> IF i = 0 THEN Interval(0, 0) ELSE Interval(0, u)]

\* The problems solve is called on: NumVars variables, one temporal
\* constraint x1 + k <= xN, satisfaction (minimize_x = 0) or minimize xN.
Problems == {[root |-> build_store(Decl(u)),
              props |-> <<[x |-> 1, y |-> NumVars, k |-> k]>>,
              branching_vars |-> [i \in 1..NumVars |-> i],
              minimize_x |-> m] : u \in {MaxDom - 1, MaxDom}, k \in {0, 1}, m \in {0, NumVars}}

KernelFrame == UNCHANGED <<store, last, prev_ub, new_ub, request, history, builder, stop>>

\* solve up to the launch: best_bound, best_sols and stats are allocated,
\* decomposition holds its static initial value
\*                                            (solver.cu:29, 112-115)
KernelInit ==
    /\ problem \in Problems
    /\ decomposition = 0
    /\ curr_decomposition = [w \in Workers |-> 0]
    /\ trees = [w \in Workers |-> [statistics |-> NewStatistics, best |-> VStoreCopy(problem.root)]]
    /\ best_bound = Interval(limit_min, limit_max)
    /\ best_sols = [w \in Workers |-> VStoreCopy(problem.root)]
    /\ stats = [w \in Workers |-> NewStatistics]
    /\ statistics = NewStatistics
    /\ searched = [i \in Indices |-> <<>>]
    /\ pc = [t \in {Host} \cup Workers |-> IF t = Host THEN "sync" ELSE "launch"]
    /\ store = NoStore /\ last = Call("none", 0, 0, 0, FALSE, NoStore)
    /\ prev_ub = <<>> /\ new_ub = <<>> /\ request = <<>> /\ history = NoHistory /\ IdleBuilder /\ IdleStop

\* if (tid == 0) { trees[nodeid].reset(new TreeAndPar(...));
\*   curr_decomposition = atomicAdd(&decomposition, 1); }  (solver.cu:60-72)
KernelLaunch(w) ==
    /\ pc[w] = "launch" /\ KernelFrame
    /\ curr_decomposition' = [curr_decomposition EXCEPT ![w] = atomicAdd(decomposition, 1).old]
    /\ decomposition' = atomicAdd(decomposition, 1).new
    /\ pc' = [pc EXCEPT ![w] = "loop"]
    /\ UNCHANGED <<problem, trees, best_bound, best_sols, stats, statistics, searched>>

\* while(curr_decomposition < sub_problems) { trees[nodeid]->search(...);
\*                                            (solver.cu:73-75)
KernelSearch(w) ==
    /\ pc[w] = "loop" /\ KernelFrame
    /\ in_range(curr_decomposition[w])
    /\ LET r == search(problem, trees[w].best, best_bound, curr_decomposition[w], SUB_PROBLEMS_POWER)
       IN  /\ trees' = [trees EXCEPT ![w] = [statistics |-> r.stats, best |-> r.best]]
           /\ best_bound' = r.bound
    /\ searched' = [searched EXCEPT ![curr_decomposition[w]] = Append(@, w)]
    /\ pc' = [pc EXCEPT ![w] = "collect"]
    /\ UNCHANGED <<problem, decomposition, curr_decomposition, best_sols, stats, statistics>>

\* if (tid == 0) { latest = statistics(); if (...) best_sols[nodeid].reset(best());
\*   stats[nodeid].join(latest); curr_decomposition = atomicAdd(...); }
\*                                            (solver.cu:76-84)
KernelCollect(w) ==
    /\ pc[w] = "collect" /\ KernelFrame
    /\ LET latest == trees[w].statistics
       IN  /\ best_sols' = IF latest.best_bound # -1 /\ latest.best_bound < stats[w].best_bound
                           THEN [best_sols EXCEPT ![w] = reset(@, trees[w].best)]
                           ELSE best_sols
           /\ stats' = [stats EXCEPT ![w] = join(@, latest)]
    /\ curr_decomposition' = [curr_decomposition EXCEPT ![w] = atomicAdd(decomposition, 1).old]
    /\ decomposition' = atomicAdd(decomposition, 1).new
    /\ pc' = [pc EXCEPT ![w] = "loop"]
    /\ UNCHANGED <<problem, trees, best_bound, statistics, searched>>

\* The loop condition is false: the block leaves the kernel (solver.cu:73, 86-89)
KernelQuit(w) ==
    /\ pc[w] = "loop" /\ KernelFrame
    /\ ~in_range(curr_decomposition[w])
    /\ pc' = [pc EXCEPT ![w] = "quit"]
    /\ UNCHANGED <<problem, decomposition, curr_decomposition, trees, best_bound, best_sols, stats, statistics, searched>>

\* Mutant of gather: the loop stops one block early.
RECURSIVE gather_short(_, _)
gather_short(acc, i) == IF i >= OR_NODES THEN acc ELSE gather_short(join(acc, stats[i]), i + 1)

\* for(i < stats->size()) statistics.join((*stats)[i])   (solver.cu:131-133)
RECURSIVE gather(_, _)
gather(acc, i) == IF i > OR_NODES THEN acc ELSE gather(join(acc, stats[i]), i + 1)

\* cudaDeviceSynchronize(); Statistics statistics; the join loop
\*                                            (solver.cu:124-133)
SolveGather ==
    /\ pc[Host] = "sync" /\ KernelFrame
    /\ \A w \in Workers : pc[w] = "quit"
    /\ statistics' = gather(NewStatistics, 1)
    /\ pc' = [pc EXCEPT ![Host] = "done"]
    /\ UNCHANGED <<problem, decomposition, curr_decomposition, trees, best_bound, best_sols, stats, searched>>

KernelNext ==
    \/ \E w \in Workers : KernelLaunch(w)
    \/ \E w \in Workers : KernelSearch(w)
    \/ \E w \in Workers : KernelCollect(w)
    \/ \E w \in Workers : KernelQuit(w)
    \/ SolveGather

SpecKernel == KernelInit /\ [][KernelNext]_vars

\* ----------------------------------------------------------- kernel claims
AllQuit == \A w \in Workers : pc[w] = "quit"

\* C1: in one launch of search_k, whatever the order of the blocks'
\* atomicAdds, no index is passed to search twice, no index >= 2^P is passed
\* to search, and when every block has quit each index of [0, 2^P) has been
\* passed to search by exactly one block.
C1_DispatchOnce ==
    /\ \A i \in Indices : Len(searched[i]) <= 1
    /\ \A i \in Indices : i >= sub_problems => searched[i] = <<>>
    /\ AllQuit => \A i \in 0..(sub_problems - 1) : Len(searched[i]) = 1

\* Every block has quit after the last index went to block 1 and the one
\* before to another block.
C1_Witness == AllQuit /\ searched[sub_problems - 1] = <<1>> /\ searched[sub_problems - 2] # <<1>> /\ decomposition = sub_problems + OR_NODES

\* The assignments of the branching variables inside the declared domains
\* that satisfy every constraint.
Models(pb) == {a \in [1..NumVars -> 0..MaxDom] :
                  /\ \A i \in 1..NumVars : lb(pb.root, i) <= a[i] /\ a[i] <= ub(pb.root, i)
                  /\ \A j \in 1..Len(pb.props) : a[pb.props[j].x] + pb.props[j].k <= a[pb.props[j].y]}

\* C2: when solve has joined the statistics of an exhaustive run, solutions
\* is the number of models of the problem, and for a minimisation problem
\* with a model best_bound is the least objective value over the models.
C2_Complete ==
    (pc[Host] = "done" /\ statistics.exhaustive) =>
        /\ statistics.solutions = Cardinality(Models(problem))
        /\ (problem.minimize_x # 0 /\ Models(problem) # {}) =>
               statistics.best_bound = MinOf({a[problem.minimize_x] : a \in Models(problem)})

\* ------------------------------- the store with negated views (vstore.cuh)
\* Operands of the calls: the limits of int and the small values around 0.
ViewVals == {limit_min, limit_max} \cup (-MaxVal..MaxVal)

ViewIntervals == [lb : ViewVals, ub : ViewVals]

\* Signed indices of the variables: -v is the view of v; 0 cannot be negated
\* and is never used (assert(xi != 0 && yi != 0), part_000:45).
ViewIndices == (-(StoreSize - 1)..(StoreSize - 1)) \ {0}

\* Unary minus on int: -INT_MIN is not representable, the negate instruction
\* yields INT_MIN again.
negate(x) == IF x = limit_min THEN limit_min ELSE -x

\* Interval::neg: {-ub, -lb}                  (vstore.cuh:46-48)
neg(itv) == Interval(negate(itv.ub), negate(itv.lb))

\* VStore::dom: data[x] = itv                 (vstore.cuh:102-104)
vs_dom(s, x, itv) == [s EXCEPT !.data[x] = itv]

\* VStore::update(int i, Interval itv)        (vstore.cuh:107-118)
vs_update(s, i, itv) == IF i < 0
                        THEN [store |-> [s EXCEPT !.data[-i] = Interval(negate(itv.ub), negate(itv.lb))],
                              ret |-> s.data[-i].lb # negate(itv.ub) \/ s.data[-i].ub # negate(itv.lb)]
                        ELSE [store |-> [s EXCEPT !.data[i] = itv],
                              ret |-> s.data[i].lb # itv.lb \/ s.data[i].ub # itv.ub]

\* VStore::operator[](int i)                  (vstore.cuh:120-122)
vs_at(s, i) == IF i < 0 THEN neg(s.data[-i]) ELSE s.data[i]

\* The store the builder fills: slot 0 is the fake variable, every other
\* slot holds a declared domain.
ViewInit ==
    /\ \E q \in ViewIntervals : store = [data |-> [i \in 0..(StoreSize - 1) |-> IF i = 0 THEN Interval(0, 0) ELSE q]]
    /\ last = Call("none", 0, 0, 0, FALSE, NoStore)
    /\ pc = <<>> /\ request = <<>> /\ history = NoHistory
    /\ IdleMinUb /\ IdleKernel /\ IdleBuilder /\ IdleStop

ViewDom ==
    /\ StoreFrame
    /\ \E x \in 1..(StoreSize - 1), itv \in ViewIntervals :
        /\ store' = vs_dom(store, x, itv)
        /\ last' = Call("dom", x, itv.lb, itv.ub, FALSE, NoStore)

ViewUpdate ==
    /\ StoreFrame
    /\ \E i \in ViewIndices, itv \in ViewIntervals :
        LET r == vs_update(store, i, itv) IN
        /\ store' = r.store
        /\ last' = Call("update", i, itv.lb, itv.ub, r.ret, NoStore)

\* store[i]: the interval is returned by value; last holds it in lo, hi.
ViewRead ==
    /\ StoreFrame
    /\ \E i \in ViewIndices :
        /\ last' = Call("read", i, vs_at(store, i).lb, vs_at(store, i).ub, FALSE, NoStore)
        /\ UNCHANGED store

ViewNext == ViewDom \/ ViewUpdate \/ ViewRead

SpecView == ViewInit /\ [][ViewNext]_vars

\* ------------------------------------------------------------- view claims
\* x is the integer -y; the negation of INT_MIN is no int.
IsMinus(x, y) == y # limit_min /\ x = -y

\* C11: a read store[-v], v > 0, returns (-ub(v), -lb(v)), the index negated
\* twice reads store[v], and no read changes the store.
C11_NegatedRead == [][last'.op = "read" => (/\ store' = store
                                            /\ last'.v < 0 => (IsMinus(last'.lo, ub(store, -last'.v)) /\ IsMinus(last'.hi, lb(store, -last'.v)))
                                            /\ vs_at(store, -(-last'.v)) = vs_at(store, last'.v))]_vars

\* C12: update(-v, itv), v > 0, leaves (-itv.ub, -itv.lb) in slot v, so that
\* store[-v] then reads itv; the other slots keep their content; the return
\* value tells whether slot v held another interval before.
C12_NegatedWrite == [][(last'.op = "update" /\ last'.v < 0) =>
                          LET v == -last'.v IN
                          /\ IsMinus(lb(store', v), last'.hi) /\ IsMinus(ub(store', v), last'.lo)
                          /\ vs_at(store', -v) = Interval(last'.lo, last'.hi)
                          /\ \A j \in DOMAIN store.data : j # v => store'.data[j] = store.data[j]
                          /\ last'.ret <=> ~(IsMinus(lb(store, v), last'.hi) /\ IsMinus(ub(store, v), last'.lo))]_vars

\* -------------------------------------------------------- Statistics::join
\* The records joined: those of a problem with or without variables, with
\* small counters and either exhaustive flag.
StatRecords == {[NewStatistics EXCEPT !.variables = n, !.nodes = k, !.depth_max = d, !.exhaustive = e] :
                   n \in 0..1, k \in Vals, d \in Vals, e \in BOOLEAN}

JoinFrame == UNCHANGED <<store, last, pc, history, minubvars, problem, decomposition, curr_decomposition, trees, best_sols, searched, builder, stop>>

\* Three records a, b, c = stats[1], stats[2], stats[3]; nothing joined yet.
JoinInit ==
    /\ stats \in [1..3 -> StatRecords]
    /\ statistics = NewStatistics
    /\ request = "none"
    /\ store = NoStore /\ last = Call("none", 0, 0, 0, FALSE, NoStore)
    /\ pc = <<>> /\ history = NoHistory /\ IdleMinUb
    /\ problem = <<>> /\ decomposition = 0 /\ curr_decomposition = <<>> /\ trees = <<>>
    /\ best_sols = <<>> /\ searched = <<>> /\ IdleBuilder /\ IdleStop

\* a.join(b), on a copy of a
JoinPair ==
    /\ request = "none" /\ JoinFrame
    /\ statistics' = join(stats[1], stats[2])
    /\ request' = "a.b"
    /\ UNCHANGED stats

\* a.join(b); a.join(c), on a copy of a
JoinLeft ==
    /\ request = "none" /\ JoinFrame
    /\ statistics' = join(join(stats[1], stats[2]), stats[3])
    /\ request' = "(a.b).c"
    /\ UNCHANGED stats

JoinNext == JoinPair \/ JoinLeft

SpecJoin == JoinInit /\ [][JoinNext]_vars

\* C13: the record a.join(b) leaves in a is the record b.join(a) leaves in
\* b, and joining b then c into a gives the record of joining into a the
\* result of joining c into b; counts are summed, depth_max is the maximum,
\* exhaustive the conjunction.
C13_JoinCommAssoc ==
    /\ request = "a.b" =>
          /\ statistics = join(stats[2], stats[1])
          /\ statistics.nodes = stats[1].nodes + stats[2].nodes
          /\ statistics.depth_max = MaxOf({stats[1].depth_max, stats[2].depth_max})
          /\ statistics.exhaustive = (stats[1].exhaustive /\ stats[2].exhaustive)
    /\ request = "(a.b).c" => statistics = join(stats[1], join(stats[2], stats[3]))

\* ----------------------------------------------------- aggregation claims
\* The statistics of subproblem d searched on its own, from a fresh tree and
\* an untouched best bound.
SubStats(d) == search(problem, VStoreCopy(problem.root), Interval(limit_min, limit_max), d, SUB_PROBLEMS_POWER).stats

\* The subproblems 0..d joined one after the other.
RECURSIVE JoinedUpTo(_)
JoinedUpTo(d) == IF d < 0 THEN NewStatistics ELSE join(JoinedUpTo(d - 1), SubStats(d))

\* C14: for a satisfaction problem, whichever block searched which
\* subproblem and however many blocks there are, the record solve joins has
\* the solutions, nodes, fails and exhaustive of the 2^P subproblems joined
\* once each.
C14_JoinedOnce ==
    (pc[Host] = "done" /\ problem.minimize_x = 0) =>
        /\ statistics.solutions = JoinedUpTo(sub_problems - 1).solutions
        /\ statistics.nodes = JoinedUpTo(sub_problems - 1).nodes
        /\ statistics.fails = JoinedUpTo(sub_problems - 1).fails
        /\ statistics.exhaustive = JoinedUpTo(sub_problems - 1).exhaustive

\* The join is done and every block contributed solutions of a subproblem
\* it searched itself.
C14_Witness ==
    /\ pc[Host] = "done" /\ problem.minimize_x = 0
    /\ \A w \in Workers : stats[w].solutions > 0 /\ \E i \in Indices : searched[i] = <<w>>
    /\ statistics.nodes > 0

\* ------------------------------------------------------------ ModelBuilder
\* OrderType of the XCSP3 callbacks.
OrderTypes == {"LE", "LT", "GE", "GT", "EQ", "IN", "NE"}

\* Names of the two fake variables          (part_000:79, 183, 288)
ZeroVar == "zero_var(fake)"
ContradictionVar == "fake var (contradiction detected at root node)"

\* The keys of var2idx in the order std::map iterates them (operator< on
\* std::string): "fake var..." < "u" < "x" < "y" < "zero_var(fake)".
NameOrder == <<ContradictionVar, "u", "x", "y", ZeroVar>>

\* Propagators the builder allocates.
NoProp == [type |-> "none"]
TemporalProp(x, y, k) == [type |-> "Temporal", x |-> x, y |-> y, k |-> k]
LogicalAnd(p1, p2) == [type |-> "LogicalAnd", p1 |-> p1, p2 |-> p2]
LinearIneq(xs, cs, c) == [type |-> "LinearIneq", vars |-> xs, constants |-> cs, c |-> c]
ReifiedProp(b, rhs) == [type |-> "Reified", b |-> b, rhs |-> rhs]

\* var2idx[name] of std::map: a missing key is inserted with a
\* value-initialised tuple, Var 0 and Interval().  (part_000:43, 135, 140)
map_at(b, name) == IF name \in DOMAIN b.var2idx THEN b
                   ELSE [b EXCEPT !.var2idx = [n \in DOMAIN b.var2idx \cup {name} |->
                            IF n = name THEN [idx |-> 0, dom |-> Interval(limit_min, limit_max)] ELSE b.var2idx[n]]]

\* ModelBuilder::add_var                      (part_000:82-86)
add_var(b, name, min, max) == [b EXCEPT !.idx2var = Append(@, name),
                                        !.var2idx = [n \in DOMAIN b.var2idx \cup {name} |->
                                            IF n = name THEN [idx |-> Len(b.idx2var), dom |-> Interval(min, max)] ELSE b.var2idx[n]]]

\* ModelBuilder::ModelBuilder: minimize_obj is not initialised
\*                                            (part_000:38, 76-80)
NewBuilder(nd) == add_var([var2idx |-> <<>>, idx2var |-> <<>>, propagators |-> <<>>, minimize_obj |-> "indeterminate", status |-> "ok", ndebug |-> nd], ZeroVar, 0, 0)

\* ModelBuilder::make_temporal_constraint: x + k <op> y. With assertions
\* compiled in (ndebug false) a Var 0 aborts; IN and NE throw.
\*                                            (part_000:41-73)
RECURSIVE make_temporal_constraint(_, _, _, _, _)
make_temporal_constraint(b, x, k, op, y) ==
    LET b1 == map_at(map_at(b, x), y)
        xi == b1.var2idx[x].idx
        yi == b1.var2idx[y].idx
        op1 == IF op = "LT" THEN "LE" ELSE IF op = "GT" THEN "GE" ELSE op
        k1 == IF op = "LT" THEN k - 1 ELSE IF op = "GT" THEN k + 1 ELSE k
    IN  IF ~b.ndebug /\ (xi = 0 \/ yi = 0) THEN [b |-> [b1 EXCEPT !.status = "abort"], p |-> NoProp]
        ELSE IF op1 = "LE" THEN [b |-> b1, p |-> TemporalProp(xi, -yi, -k1)]
        ELSE IF op1 = "GE" THEN [b |-> b1, p |-> TemporalProp(-xi, yi, k1)]
        ELSE IF op1 = "EQ" THEN LET r1 == make_temporal_constraint(b1, x, k1, "LE", y)
                                    r2 == make_temporal_constraint(r1.b, x, k1, "GE", y)
                                IN  [b |-> r2.b, p |-> LogicalAnd(r1.p, r2.p)]
        ELSE [b |-> [b1 EXCEPT !.status = "error"], p |-> NoProp]

\* ModelBuilder::add_temporal_constraint: nothing is pushed when
\* make_temporal_constraint does not return.  (part_000:130-132)
add_temporal_constraint(b, x, k, op, y) ==
    LET r == make_temporal_constraint(b, x, k, op, y)
    IN  IF r.b.status = "ok" THEN [r.b EXCEPT !.propagators = Append(@, r.p)] ELSE r.b

\* ModelBuilder::add_objective_minimize       (part_000:134-136)
add_objective_minimize(b, x) == [map_at(b, x) EXCEPT !.minimize_obj = map_at(b, x).var2idx[x].idx]

\* Mutant of strengthen_domain2: IN and NE are taken for EQ.
strengthen_domain2_in_as_eq(b, x, op, k) ==
    [map_at(b, x) EXCEPT !.var2idx[x].dom = IF op \in {"LT"} THEN [@ EXCEPT !.ub = k - 1]
                                            ELSE IF op = "GT" THEN [@ EXCEPT !.lb = k + 1]
                                            ELSE IF op = "LE" THEN [@ EXCEPT !.ub = k]
                                            ELSE IF op = "GE" THEN [@ EXCEPT !.lb = k]
                                            ELSE Interval(k, k)]

\* ModelBuilder::strengthen_domain2: the bounds are assigned through the
\* reference into var2idx, then IN and NE throw.  (part_000:139-156)
strengthen_domain2(b, x, op, k) ==
    LET b1 == map_at(b, x)
        v0 == b1.var2idx[x].dom
        v1 == IF op = "LT" THEN [v0 EXCEPT !.ub = k - 1] ELSE v0
        v2 == IF op = "GT" THEN [v1 EXCEPT !.lb = k + 1] ELSE v1
        v3 == IF op \in {"LE", "EQ"} THEN [v2 EXCEPT !.ub = k] ELSE v2
        v4 == IF op \in {"GE", "EQ"} THEN [v3 EXCEPT !.lb = k] ELSE v3
    IN  [b1 EXCEPT !.var2idx[x].dom = v4, !.status = IF op \in {"IN", "NE"} THEN "error" ELSE @]

\* The C++ operators / and % on int: the quotient truncates toward zero
\* and the remainder takes the sign of the dividend.  (part_000:196-207)
c_abs(x) == IF x < 0 THEN -x ELSE x
c_div(x, y) == IF (x < 0) = (y < 0) THEN c_abs(x) \div c_abs(y) ELSE -(c_abs(x) \div c_abs(y))
c_rem(x, y) == x - y * c_div(x, y)

\* ModelBuilder::le_mul_domain on a node X * a <= b  (part_000:171-213)
le_mul_domain(b, x, a, k) ==
    IF a = 0 THEN (IF k < 0 THEN add_var(b, ContradictionVar, 1, 0) ELSE b)
    ELSE IF k = 0 THEN (IF a > 0 THEN strengthen_domain2(b, x, "LE", 0) ELSE strengthen_domain2(b, x, "GE", 0))
    ELSE LET res == c_div(k, a)
         IN  IF a > 0 /\ k > 0 THEN strengthen_domain2(b, x, "LE", res)
             ELSE IF a > 0 /\ k < 0 THEN strengthen_domain2(b, x, "LE", res - c_rem(-k, a))
             ELSE IF a < 0 /\ k > 0 THEN strengthen_domain2(b, x, "GE", res)
             ELSE strengthen_domain2(b, x, "GE", res + c_rem(-k, -a))

\* Mutant of tautology: a false comparison of constants is dropped like a
\* true one.
tautology_silent(b, c1, c2) == b

\* ModelBuilder::tautology on a node c1 <= c2: the builder it leaves
\*                                            (part_000:281-293)
tautology(b, c1, c2) == IF c1 <= c2 THEN b ELSE add_var(b, ContradictionVar, 1, 0)

\* The loop of add_linear_constraint over the factors: var2idx[...] for
\* each name, in order.                       (part_000:307-313)
RECURSIVE linear_vars(_, _, _)
linear_vars(b, xs, i) == IF i > Len(xs) THEN [b |-> b, vars |-> <<>>]
                         ELSE LET b1 == map_at(b, xs[i])
                                  r == linear_vars(b1, xs, i + 1)
                              IN  [b |-> r.b, vars |-> <<b1.var2idx[xs[i]].idx>> \o r.vars]

\* ModelBuilder::make_temporal_constraint_from_node on x <= y + k (k = 0
\* for the shape x <= y)                      (part_000:249-279)
make_temporal_constraint_from_node(b, x, y, k) == make_temporal_constraint(b, x, -k, "LE", y)

\* A constraint tree, by shape:
\*   [shape "mul", x, a, c]        X * a <= c
\*   [shape "cmp", c1, c2]         c1 <= c2
\*   [shape "sum", xs, cs, c]      xs[1]*cs[1] + ... + xs[N]*cs[N] <= c
\*   [shape "iff", b, x, y, k]     b <=> (x <= y /\ y <= x + k)
arity(node) == IF node.shape = "mul" THEN 1
               ELSE IF node.shape = "cmp" THEN 0
               ELSE IF node.shape = "sum" THEN Cardinality({node.xs[i] : i \in DOMAIN node.xs})
               ELSE Cardinality({node.b, node.x, node.y})

\* ModelBuilder::strengthen_domain_from_node: le_mul_domain treats
\* X * a <= c; a sum or an equivalence over one variable is neither a
\* variable against a value and throws.       (part_000:215-246)
strengthen_domain_from_node(b, node) == IF node.shape = "mul" THEN le_mul_domain(b, node.x, node.a, node.c)
                                        ELSE [b EXCEPT !.status = "error"]

\* ModelBuilder::add_linear_constraint        (part_000:295-316)
add_linear_constraint(b, node) ==
    IF node.shape = "cmp" THEN tautology(b, node.c1, node.c2)
    ELSE LET r == linear_vars(b, node.xs, 1)
         IN  [r.b EXCEPT !.propagators = Append(@, LinearIneq(r.vars, node.cs, node.c))]

\* ModelBuilder::add_reified_constraint       (part_000:318-336)
add_reified_constraint(b, node) ==
    LET r1 == make_temporal_constraint_from_node(b, node.x, node.y, 0)
        r2 == make_temporal_constraint_from_node(r1.b, node.y, node.x, node.k)
        b3 == map_at(r2.b, node.b)
    IN  IF r1.b.status # "ok" THEN r1.b
        ELSE IF r2.b.status # "ok" THEN r2.b
        ELSE [b3 EXCEPT !.propagators = Append(@, ReifiedProp(b3.var2idx[node.b].idx, LogicalAnd(r1.p, r2.p)))]

\* ModelBuilder::add_constraint               (part_000:88-102)
add_constraint(b, node) == IF arity(node) = 1 THEN strengthen_domain_from_node(b, node)
                           ELSE IF node.shape = "iff" THEN add_reified_constraint(b, node)
                           ELSE add_linear_constraint(b, node)

\* ModelBuilder::build_store on the builder: a store of idx2var.size()
\* default intervals, then dom for every entry of var2idx in key order.
\*                                            (part_000:104-113)
RECURSIVE builder_store_from(_, _, _)
builder_store_from(s, b, i) ==
    IF i > Len(NameOrder) THEN s
    ELSE IF NameOrder[i] \in DOMAIN b.var2idx
         THEN builder_store_from(dom(s, b.var2idx[NameOrder[i]].idx, b.var2idx[NameOrder[i]].dom), b, i + 1)
         ELSE builder_store_from(s, b, i + 1)

builder_store(b) == builder_store_from([data |-> [i \in 0..(Len(b.idx2var) - 1) |-> Interval(limit_min, limit_max)], top |-> FALSE], b, 1)

\* What a propagator enforces on an assignment a of the variables.
\* TemporalProp(x, y, c) is x + y <= c over signed indices, a negative
\* index standing for the negated variable: the reading under which the
\* LE and GE cases of make_temporal_constraint state x + k <= y and
\* x + k >= y.
val(a, i) == IF i < 0 THEN -a[-i] ELSE a[i]

RECURSIVE Holds(_, _)
Holds(p, a) == IF p.type = "Temporal" THEN val(a, p.x) + val(a, p.y) <= p.k
               ELSE IF p.type = "LogicalAnd" THEN Holds(p.p1, a) /\ Holds(p.p2, a)
               ELSE FALSE

\* -------------------------------------------------- building one model
\* The names the callbacks pass: x and y are declared, u is not.
Declared == {"x", "y"}
Names == Declared \cup {"u"}

\* The constants of the constraints; the factors and right-hand sides of
\* X * a <= b reach remainders above 1.
MaxCoef == 5

Ks == (-MaxVal)..MaxVal
Coefs == (-MaxCoef)..MaxCoef

\* The trees handed to add_constraint.
Nodes == [shape : {"mul"}, x : Names, a : Coefs, c : Coefs]
         \cup [shape : {"cmp"}, c1 : Ks, c2 : Ks]
         \cup [shape : {"sum"}, xs : {<<"x", "y">>, <<"y", "x">>, <<"x", "u">>, <<"x", "x">>}, cs : {<<1, 1>>, <<1, -1>>}, c : Ks]
         \cup [shape : {"iff"}, b : Names, x : Names, y : Names, k : {0, 1}]

BuilderFrame == UNCHANGED <<pc, request, history, minubvars, kernelvars, stop>>

\* A builder after its constructor and the declarations of x and y, with
\* or without a first constraint x <= y; assertions compiled in or out.
BuilderInit ==
    /\ \E d \in Intervals, nd \in BOOLEAN, pre \in BOOLEAN :
        builder = LET b0 == add_var(add_var(NewBuilder(nd), "x", d.lb, d.ub), "y", 0, MaxVal)
                  IN  IF pre THEN add_temporal_constraint(b0, "x", 0, "LE", "y") ELSE b0
    /\ builder.status = "ok"
    /\ last = [op |-> "new"]
    /\ store = NoStore
    /\ pc = <<>> /\ request = <<>> /\ history = NoHistory
    /\ IdleMinUb /\ IdleKernel /\ IdleStop

StrengthenDomain ==
    /\ last.op = "new"
    /\ BuilderFrame /\ UNCHANGED store
    /\ \E x \in Names, op \in OrderTypes, k \in Ks :
        /\ builder' = strengthen_domain2(builder, x, op, k)
        /\ last' = [op |-> "strengthen_domain", x |-> x, ord |-> op, k |-> k]

AddTemporalConstraint ==
    /\ last.op = "new"
    /\ BuilderFrame /\ UNCHANGED store
    /\ \E x \in Names, y \in Names, op \in OrderTypes, k \in Ks :
        /\ builder' = add_temporal_constraint(builder, x, k, op, y)
        /\ last' = [op |-> "add_temporal_constraint", x |-> x, k |-> k, ord |-> op, y |-> y]

AddObjectiveMinimize ==
    /\ last.op = "new"
    /\ BuilderFrame /\ UNCHANGED store
    /\ \E x \in Names :
        /\ builder' = add_objective_minimize(builder, x)
        /\ last' = [op |-> "add_objective_minimize", x |-> x]

AddConstraint ==
    /\ last.op = "new"
    /\ BuilderFrame /\ UNCHANGED store
    /\ \E node \in Nodes :
        /\ builder' = add_constraint(builder, node)
        /\ last' = [op |-> "add_constraint", node |-> node]

\* build_store runs once the callbacks returned without an exception.
BuildStore ==
    /\ last.op \notin {"new", "build_store"}
    /\ builder.status = "ok"
    /\ BuilderFrame /\ UNCHANGED builder
    /\ store' = builder_store(builder)
    /\ last' = [op |-> "build_store", after |-> last]

BuilderNext == StrengthenDomain \/ AddTemporalConstraint \/ AddObjectiveMinimize \/ AddConstraint \/ BuildStore

SpecBuilder == BuilderInit /\ [][BuilderNext]_vars

\* ---------------------------------------------------------- builder claims
\* The assignments of the declared variables a propagator is judged on.
Assignments == [0..2 -> (-(MaxVal + 1))..(MaxVal + 1)]

\* x + k <op> y on an assignment, for the index of x and of y.
Compare(l, op, r) == IF op = "LT" THEN l < r
                     ELSE IF op = "GT" THEN l > r
                     ELSE IF op = "LE" THEN l <= r
                     ELSE IF op = "GE" THEN l >= r
                     ELSE l = r

\* C15: the propagator add_temporal_constraint registers for x + k < y,
\* x + k > y or x + k = y over declared variables holds on exactly the
\* assignments that satisfy the strict (or equality) constraint.
C15_StrictTemporal ==
    [][(last'.op = "add_temporal_constraint" /\ last'.ord \in {"LT", "GT", "EQ"} /\ last'.x \in Declared /\ last'.y \in Declared)
        => /\ Len(builder'.propagators) = Len(builder.propagators) + 1
           /\ \A a \in Assignments :
                Holds(builder'.propagators[Len(builder'.propagators)], a)
                    <=> Compare(a[builder.var2idx[last'.x].idx] + last'.k, last'.ord, a[builder.var2idx[last'.y].idx])]_vars

\* The names a recorded call passes.
CallNames(c) == IF c.op = "add_temporal_constraint" THEN {c.x, c.y}
                ELSE IF c.op \in {"strengthen_domain", "add_objective_minimize"} THEN {c.x}
                ELSE IF c.op # "add_constraint" THEN {}
                ELSE IF c.node.shape = "mul" THEN {c.node.x}
                ELSE IF c.node.shape = "sum" THEN {c.node.xs[i] : i \in DOMAIN c.node.xs}
                ELSE IF c.node.shape = "iff" THEN {c.node.b, c.node.x, c.node.y}
                ELSE {}

\* C16: strengthen_domain and add_temporal_constraint with NE or IN do not
\* return normally (over declared variables they throw the build error),
\* register no propagator and leave every entry of the variable table,
\* index and domain, as it was.
C16_RejectNeIn ==
    [][(last'.op \in {"strengthen_domain", "add_temporal_constraint"} /\ last'.ord \in {"NE", "IN"})
        => /\ builder'.status # "ok"
           /\ CallNames(last') \subseteq Declared => builder'.status = "error"
           /\ builder'.propagators = builder.propagators
           /\ \A n \in DOMAIN builder.var2idx : builder'.var2idx[n] = builder.var2idx[n]]_vars

\* A build error of strengthen_domain(x, NE, k) on a builder that holds a
\* propagator and the declared domains.
C16_Witness == /\ last.op = "strengthen_domain" /\ last.ord = "NE" /\ last.x = "x"
               /\ builder.status = "error"
               /\ Len(builder.propagators) = 1
               /\ builder.var2idx["x"].dom = Interval(0, MaxVal)

\* C17: a call that names a variable never declared ends in a build error
\* and leaves the variable table as it was.
C17_UnknownName ==
    [][(last'.op \in {"strengthen_domain", "add_temporal_constraint", "add_objective_minimize", "add_constraint"}
            /\ ~(CallNames(last') \subseteq Declared))
        => /\ builder'.status = "error"
           /\ builder'.var2idx = builder.var2idx
           /\ builder'.idx2var = builder.idx2var]_vars

\* The trees that are false, or true, whatever the variables hold.
Contradiction(node) == \/ node.shape = "cmp" /\ node.c1 > node.c2
                       \/ node.shape = "mul" /\ node.a = 0 /\ node.c < 0
TrueComparison(node) == node.shape = "cmp" /\ node.c1 <= node.c2

\* C18: add_constraint on c1 <= c2 with c1 > c2, or on X * 0 <= b with
\* b < 0, declares the fake variable with the empty domain [1,0] and the
\* store build_store makes of that builder is top; on a true comparison of
\* constants the builder is left as it was, no variable and no propagator
\* added.
C18_RootContradiction ==
    [][/\ (last'.op = "add_constraint" /\ Contradiction(last'.node))
            => /\ builder'.status = "ok"
               /\ ContradictionVar \in DOMAIN builder'.var2idx
               /\ builder'.var2idx[ContradictionVar] = [idx |-> Len(builder.idx2var), dom |-> Interval(1, 0)]
               /\ builder'.idx2var = Append(builder.idx2var, ContradictionVar)
               /\ builder'.propagators = builder.propagators
       /\ (last'.op = "build_store" /\ last.op = "add_constraint" /\ Contradiction(last.node))
            => /\ is_top(store')
               /\ size(store') = Len(builder.idx2var)
               /\ store'.data[size(store') - 1] = Interval(1, 0)
       /\ (last'.op = "add_constraint" /\ TrueComparison(last'.node))
            => builder' = builder]_vars

\* The store built after the contradiction 1 <= 0 over non-empty declared
\* domains.
C18_Witness == /\ last.op = "build_store" /\ last.after.op = "add_constraint"
               /\ last.after.node.shape = "cmp" /\ last.after.node.c1 > last.after.node.c2
               /\ builder.var2idx["x"].dom = Interval(0, MaxVal)
               /\ is_top(store) /\ size(store) = 4

\* ------------------------------------------------------- the final verdict
\* Statistics::print_xcsp_comment, before a line  (vstore.cuh:273-277)
print_xcsp_comment(s, line) == IF s.xcsp THEN <<"c", line>> ELSE <<line>>

\* Statistics::print_mzn_final_separator: the lines it prints
\*                                            (vstore.cuh:279-298)
print_mzn_final_separator(s) ==
    IF s.solutions > 0 THEN (IF s.exhaustive THEN <<print_xcsp_comment(s, "==========")>> ELSE <<>>)
    ELSE IF s.exhaustive THEN <<<<"=====UNSATISFIABLE=====">>>>
    ELSE IF s.optimization THEN <<<<"=====UNBOUNDED=====">>>>
    ELSE <<<<"=====UNKNOWN=====">>>>

\* Mutant of print_final_xcsp: no solution is reported as unsatisfiable
\* whether or not the search was exhaustive.
print_final_xcsp_hasty(s) == IF s.solutions > 0 THEN <<<<"s SATISFIABLE">>>> ELSE <<<<"s UNSATISFIABLE">>>>

\* Statistics::print_final_xcsp               (vstore.cuh:299-309)
print_final_xcsp(s) == IF s.solutions > 0 THEN <<<<"s SATISFIABLE">>>>
                       ELSE IF s.exhaustive THEN <<<<"s UNSATISFIABLE">>>>
                       ELSE <<<<"s UNKNOWN">>>>

\* Statistics::print_final                    (vstore.cuh:310-315)
print_final(s) == (IF ~s.xcsp THEN print_mzn_final_separator(s) ELSE <<>>) \o print_final_xcsp(s)

\* What one block reports: solutions found, and whether its searches ran
\* to the end.
BlockRecords(o, x) == {[NewStatistics EXCEPT !.optimization = o, !.xcsp = x, !.solutions = n, !.nodes = n, !.exhaustive = e] :
                          n \in Vals, e \in BOOLEAN}

VerdictFrame == UNCHANGED <<store, pc, history, minubvars, problem, decomposition, curr_decomposition, trees, best_sols, searched, builder, stop>>

\* A global record before the join loop, for a satisfaction or an
\* optimisation problem, in MiniZinc or XCSP3 output, and the records of
\* two blocks.
VerdictInit ==
    /\ \E o \in BOOLEAN, x \in BOOLEAN :
        /\ statistics = [NewStatistics EXCEPT !.optimization = o, !.xcsp = x]
        /\ stats \in [1..2 -> BlockRecords(o, x)]
    /\ request = "none"
    /\ store = NoStore /\ last = [op |-> "none", out |-> <<>>]
    /\ pc = <<>> /\ history = NoHistory /\ IdleMinUb
    /\ problem = <<>> /\ decomposition = 0 /\ curr_decomposition = <<>> /\ trees = <<>>
    /\ best_sols = <<>> /\ searched = <<>> /\ IdleBuilder /\ IdleStop

\* solve's join loop                          (solver.cu:130-133)
VerdictJoin ==
    /\ request = "none" /\ VerdictFrame
    /\ statistics' = join(join(statistics, stats[1]), stats[2])
    /\ request' = "joined"
    /\ UNCHANGED <<stats, last>>

PrintFinal ==
    /\ request = "joined" /\ VerdictFrame
    /\ last' = [op |-> "print_final", out |-> print_final(statistics)]
    /\ request' = "printed"
    /\ UNCHANGED <<stats, statistics>>

PrintFinalXcsp ==
    /\ request = "joined" /\ VerdictFrame
    /\ last' = [op |-> "print_final_xcsp", out |-> print_final_xcsp(statistics)]
    /\ request' = "printed"
    /\ UNCHANGED <<stats, statistics>>

PrintMznFinalSeparator ==
    /\ request = "joined" /\ VerdictFrame
    /\ last' = [op |-> "print_mzn_final_separator", out |-> print_mzn_final_separator(statistics)]
    /\ request' = "printed"
    /\ UNCHANGED <<stats, statistics>>

VerdictNext == VerdictJoin \/ PrintFinal \/ PrintFinalXcsp \/ PrintMznFinalSeparator

SpecVerdict == VerdictInit /\ [][VerdictNext]_vars

\* ----------------------------------------------------------- verdict claim
\* The lines of the last call.
Printed == {last.out[i] : i \in DOMAIN last.out}
UnsatLines == {<<"=====UNSATISFIABLE=====">>, <<"s UNSATISFIABLE">>}
OpenLines == {<<"=====UNKNOWN=====">>, <<"=====UNBOUNDED=====">>, <<"s UNKNOWN">>}

\* C19: print_final prints an UNSATISFIABLE line only for solutions = 0 and
\* exhaustive; for solutions = 0 and not exhaustive it prints s UNKNOWN
\* (after =====UNBOUNDED===== for an optimisation problem, =====UNKNOWN=====
\* otherwise, in MiniZinc output) and nothing else; for solutions > 0 it
\* prints s SATISFIABLE and no UNSATISFIABLE, UNKNOWN or UNBOUNDED line.
C19_Verdict ==
    last.op = "print_final" =>
        /\ Printed \cap UnsatLines # {} => (statistics.solutions = 0 /\ statistics.exhaustive)
        /\ (statistics.solutions = 0 /\ ~statistics.exhaustive) =>
                last.out = IF statistics.xcsp THEN <<<<"s UNKNOWN">>>>
                           ELSE IF statistics.optimization THEN <<<<"=====UNBOUNDED=====">>, <<"s UNKNOWN">>>>
                           ELSE <<<<"=====UNKNOWN=====">>, <<"s UNKNOWN">>>>
        /\ statistics.solutions > 0 =>
                (<<"s SATISFIABLE">> \in Printed /\ Printed \cap (UnsatLines \cup OpenLines) = {})

\* An optimisation run in MiniZinc output that a block cut short, no
\* solution found.
C19_Witness == /\ last.op = "print_final"
               /\ statistics.solutions = 0 /\ ~statistics.exhaustive /\ statistics.optimization /\ ~statistics.xcsp
               /\ stats[1].exhaustive /\ ~stats[2].exhaustive
               /\ last.out = <<<<"=====UNBOUNDED=====">>, <<"s UNKNOWN">>>>

\* ------------------------------------------------------------ cancellation
\* The time solve was given runs out while the host waits in
\* cudaDeviceSynchronize. Nothing in solve or search_k holds or reads a
\* stop flag (the parameter timeout is unused, solver.cu:91, 136): stop
\* records the request, and the steps of the blocks are those of
\* SpecKernel.
SolveTimeout ==
    /\ ~stop /\ pc[Host] = "sync"
    /\ stop' = TRUE
    /\ UNCHANGED <<store, last, pc, request, history, minubvars, kernelvars, builder>>

StopNext == KernelNext \/ SolveTimeout

\* The next step of a block that has not left the kernel: one of
\* KernelLaunch, KernelSearch, KernelCollect, KernelQuit, seen on pc alone.
BlockStep(w) == pc[w] # "quit" /\ \E q \in {"loop", "collect", "quit"} : q # pc[w] /\ pc' = [pc EXCEPT ![w] = q]

\* Every block of the launch is scheduled until it leaves the kernel, and
\* the host returns from cudaDeviceSynchronize.
SpecStop == KernelInit /\ [][StopNext]_vars /\ (\A w \in Workers : WF_pc(BlockStep(w))) /\ WF_vars(SolveGather)

\* C20: once stop is requested, no block starts the search of another
\* subproblem, and every block that had not left its loop leaves it, its
\* record holding exhaustive = false.
C20_StopObserved ==
    /\ [][stop => searched' = searched]_vars
    /\ \A w \in Workers : (stop /\ pc[w] # "quit") ~> (pc[w] = "quit" /\ ~stats[w].exhaustive)

\* ------------------------------------------------- termination of a launch
\* One launch of search_k under fair scheduling of its blocks.
SpecLive == KernelInit /\ [][KernelNext]_vars /\ (\A w \in Workers : WF_pc(BlockStep(w))) /\ WF_vars(SolveGather)

\* C21: every block eventually leaves its loop; a block that received an
\* index >= 2^P never fetches another one, and with all blocks out each
\* holds its own index >= 2^P and the counter is 2^P + OR_NODES.
C21_Overshoot ==
    /\ <>AllQuit
    /\ [][\A w \in Workers : (pc[w] # "launch" /\ ~in_range(curr_decomposition[w])) => curr_decomposition'[w] = curr_decomposition[w]]_vars
    /\ [](AllQuit => /\ decomposition = sub_problems + OR_NODES
                     /\ {curr_decomposition[w] : w \in Workers} = sub_problems..(sub_problems + OR_NODES - 1))

\* All blocks out and the host done, after block 1 searched subproblem 0
\* and the last block the last subproblem.
C21_Witness == /\ AllQuit /\ pc[Host] = "done" /\ decomposition = sub_problems + OR_NODES
               /\ searched[0] = <<1>> /\ searched[sub_problems - 1] = <<OR_NODES>>
               /\ curr_decomposition[1] >= sub_problems

\* ------------------------------------------------- strengthening a domain
\* The interval itv intersected with {v : v op k}.
Restricted(itv, op, k) ==
    LET lo == IF op = "GT" THEN k + 1 ELSE IF op \in {"GE", "EQ"} THEN k ELSE itv.lb
        hi == IF op = "LT" THEN k - 1 ELSE IF op \in {"LE", "EQ"} THEN k ELSE itv.ub
    IN  Interval(MaxOf({itv.lb, lo}), MinOf({itv.ub, hi}))

\* C22: strengthen_domain(x, op, k) on a declared x, op one of <=, <, >=,
\* >, =, leaves as the domain of x the previous domain intersected with
\* {v : v op k}: no bound moves outwards.
C22_NeverWidens ==
    [][(last'.op = "strengthen_domain" /\ last'.ord \in {"LE", "LT", "GE", "GT", "EQ"} /\ last'.x \in Declared)
        => /\ builder'.var2idx[last'.x].dom = Restricted(builder.var2idx[last'.x].dom, last'.ord, last'.k)
           /\ builder'.var2idx[last'.x].dom.lb >= builder.var2idx[last'.x].dom.lb
           /\ builder'.var2idx[last'.x].dom.ub <= builder.var2idx[last'.x].dom.ub]_vars

\* floor(b / a) and ceil(b / a) over the integers, a # 0.
floor_div(b, a) == IF a > 0 THEN b \div a ELSE (-b) \div (-a)
ceil_div(b, a) == -floor_div(-b, a)

\* C23: add_constraint on X * a <= b, a # 0 and X declared, sets the upper
\* bound of X to floor(b / a) when a > 0 and the lower bound to ceil(b / a)
\* when a < 0, the other bound being left alone; every value v with
\* a * v <= b lies between the bounds it set.
C23_FloorCeil ==
    [][(last'.op = "add_constraint" /\ last'.node.shape = "mul" /\ last'.node.a # 0 /\ last'.node.x \in Declared)
        => LET a == last'.node.a
               b == last'.node.c
               old == builder.var2idx[last'.node.x].dom
               new == builder'.var2idx[last'.node.x].dom
           IN  /\ builder'.status = "ok"
               /\ a > 0 => (new.ub = floor_div(b, a) /\ new.lb = old.lb)
               /\ a < 0 => (new.lb = ceil_div(b, a) /\ new.ub = old.ub)
               /\ \A v \in (-(MaxCoef + 1))..(MaxCoef + 1) :
                    a * v <= b => IF a > 0 THEN v <= new.ub ELSE v >= new.lb]_vars

\* ------------------------------------------------------ one branching step
\* The stores the search branches on: past the fixpoint and not top, every
\* variable over a non-empty interval of up to MaxDom + 2 values.
BranchVals == 0..(MaxDom + 1)

BranchStores == {[data |-> d, top |-> FALSE] :
                    d \in {f \in [0..NumVars -> [lb : BranchVals, ub : BranchVals]] :
                              f[0] = Interval(0, 0) /\ \A i \in 1..NumVars : f[i].lb <= f[i].ub}}

\* The first unassigned variable of the default order, 0 if none.
first_unassigned(s) == IF \A i \in 1..NumVars : is_assigned(s.data[i]) THEN 0
                       ELSE MinOf({i \in 1..NumVars : ~is_assigned(s.data[i])})

SplitFrame == UNCHANGED <<pc, request, history, minubvars, kernelvars, builder, stop>>

SplitInit ==
    /\ store \in BranchStores
    /\ last = [op |-> "none"]
    /\ pc = <<>> /\ request = <<>> /\ history = NoHistory
    /\ IdleMinUb /\ IdleKernel /\ IdleBuilder /\ IdleStop

\* Step 4 of the main loop: the right half is pushed with a snapshot of the
\* current store, the left half narrowed into the current store.
Branch ==
    /\ last.op # "branch" /\ first_unassigned(store) # 0 /\ SplitFrame
    /\ LET v == first_unassigned(store)
       IN  /\ store' = update(store, v, left_half(store.data[v])).store
           /\ last' = [op |-> "branch", v |-> v, before |-> store, right |-> right_half(store.data[v])]

\* Popping restores the snapshot and continues at the right half.
Pop ==
    /\ last.op = "branch" /\ SplitFrame
    /\ store' = update(last.before, last.v, last.right).store
    /\ last' = [op |-> "pop", v |-> last.v]

SplitNext == Branch \/ Pop

SpecSplit == SplitInit /\ [][SplitNext]_vars

\* C24: at a branching on v the left half in the current store and the
\* right half on the stack are non-empty, the left one starts at lb(v), the
\* right one ends at ub(v) and starts one above the end of the left one:
\* disjoint, and together the whole interval.
C24_SplitPartition ==
    [][last'.op = "branch"
        => LET itv == store.data[last'.v]
               l == store'.data[last'.v]
               r == last'.right
           IN  /\ l.lb <= l.ub /\ r.lb <= r.ub
               /\ l.lb = itv.lb /\ r.ub = itv.ub
               /\ r.lb = l.ub + 1]_vars

\* ------------------------------------------------------ the fixpoint engine
\* The variables of the fixpoint runs: chains of two constraints need
\* three of them.
FixVars == 1..(NumVars + 1)

\* The propagator lists: two temporal constraints x + k <= y over distinct
\* variables, in either order, cycles included.
FixTemporals == {p \in [x : FixVars, y : FixVars, k : 0..1] : p.x # p.y}
FixProps == {<<p, q>> : p \in FixTemporals, q \in FixTemporals}

\* The stores the engine starts on: not top, variable 1 over 0 .. u, the
\* others over 0 .. MaxDom.
FixStores == {[data |-> [i \in {0} \cup FixVars |-> IF i = 0 THEN Interval(0, 0) ELSE IF i = 1 THEN Interval(0, u) ELSE Interval(0, MaxDom)], top |-> FALSE] :
                u \in BranchVals}

FixFrame == UNCHANGED <<request, history, minubvars, decomposition, curr_decomposition, trees, stats, best_sols, statistics, searched, builder, stop>>

FixInit ==
    /\ store \in FixStores
    /\ \E ps \in FixProps : problem = [props |-> ps]
    /\ pc = <<"sweep">>
    /\ last = [op |-> "none", ret |-> FALSE, n |-> 0]
    /\ request = <<>> /\ history = NoHistory /\ IdleMinUb
    /\ decomposition = 0 /\ curr_decomposition = <<>> /\ trees = <<>>
    /\ stats = <<>> /\ best_sols = <<>> /\ statistics = <<>> /\ searched = <<>>
    /\ IdleBuilder /\ IdleStop

\* One round of the engine: a full sweep over the propagators, counted in
\* fixpoint_iterations (last.n); the loop ends on a sweep without change
\* or on a top store.
FixSweep ==
    /\ pc = <<"sweep">> /\ FixFrame
    /\ LET r == sweep(store, problem.props, 1, FALSE)
       IN  /\ store' = r.store
           /\ last' = [op |-> "sweep", ret |-> r.ret, n |-> last.n + 1]
           /\ pc' = IF is_top(r.store) \/ ~r.ret THEN <<"done">> ELSE <<"sweep">>
    /\ UNCHANGED problem

FixNext == FixSweep

\* The engine runs until its loop ends.
SpecFix == FixInit /\ [][FixNext]_vars /\ WF_vars(FixSweep)

\* No bound of s2 is wider than in s1, and one is strictly tighter.
Narrowed(s1, s2) == /\ \A i \in DOMAIN s1.data : lb(s2, i) >= lb(s1, i) /\ ub(s2, i) <= ub(s1, i)
                    /\ \E i \in DOMAIN s1.data : lb(s2, i) > lb(s1, i) \/ ub(s2, i) < ub(s1, i)

\* C25: the engine ends on every store and propagator list; a sweep that
\* reports a change has strictly narrowed a bound and widened none, a sweep
\* that reports none has left the store as it was, and the loop goes on
\* exactly after a sweep with a change whose store is not top.
C25_FixpointTerminates ==
    /\ <>(pc = <<"done">>)
    /\ [][last'.op = "sweep"
            => /\ last'.ret => Narrowed(store, store')
               /\ ~last'.ret => store' = store
               /\ (pc' = <<"sweep">>) <=> (last'.ret /\ ~is_top(store'))]_vars

\* An engine that ended, not top, on a quiet third sweep: the two before
\* it narrowed.
C25_Witness == /\ pc = <<"done">> /\ last.n = 3 /\ ~last.ret /\ ~is_top(store)
               /\ problem.props[1] # problem.props[2]

\* ------------------------------------------------- the threads of a block
\* threadIdx.x of the threads of block 1; thread 0 fetches the indices.
Threads == 0..(AND_NODES - 1)

\* Mutant of syncthreads: no thread waits for the others.
syncthreads_none(p) == TRUE

\* __syncthreads(): the threads at the barrier go on once every thread of
\* the block has arrived.                     (solver.cu:72, 84)
syncthreads(p) == \A t \in Threads : p[t] = "sync"

RoundFrame == UNCHANGED <<store, last, history, minubvars, problem, trees, stats, best_sols, statistics, searched, builder, stop>>

\* Block 1 at its launch: thread 0 is before the first fetch, the others
\* wait at the first barrier. request holds, per thread, the round it is
\* in, the index its loop condition read and the index it passed to search.
RoundInit ==
    /\ decomposition = 0
    /\ curr_decomposition = <<0>>
    /\ pc = [t \in Threads |-> IF t = 0 THEN "launch" ELSE "sync"]
    /\ request = [t \in Threads |-> [round |-> 0, cond |-> -1, idx |-> -1]]
    /\ store = NoStore /\ last = Call("none", 0, 0, 0, FALSE, NoStore) /\ history = NoHistory /\ IdleMinUb
    /\ problem = <<>> /\ trees = <<>> /\ stats = <<>> /\ best_sols = <<>> /\ statistics = <<>> /\ searched = <<>>
    /\ IdleBuilder /\ IdleStop

\* if (tid == 0) { ... curr_decomposition = atomicAdd(&decomposition, 1); }
\*                                            (solver.cu:60-71)
RoundLaunch ==
    /\ pc[0] = "launch" /\ RoundFrame
    /\ curr_decomposition' = <<atomicAdd(decomposition, 1).old>>
    /\ decomposition' = atomicAdd(decomposition, 1).new
    /\ pc' = [pc EXCEPT ![0] = "sync"]
    /\ UNCHANGED request

\* Another block of the grid fetches an index.  (solver.cu:70, 82)
OtherFetch ==
    /\ decomposition < sub_problems + OR_NODES - 1 /\ RoundFrame
    /\ decomposition' = atomicAdd(decomposition, 1).new
    /\ UNCHANGED <<curr_decomposition, pc, request>>

\* __syncthreads() before the loop and at the end of its body
\*                                            (solver.cu:72, 84)
RoundBarrier ==
    /\ \E t \in Threads : pc[t] = "sync"
    /\ syncthreads(pc) /\ RoundFrame
    /\ pc' = [t \in Threads |-> IF pc[t] = "sync" THEN "cond" ELSE pc[t]]
    /\ UNCHANGED <<decomposition, curr_decomposition, request>>

\* while(curr_decomposition < sub_problems): the thread reads the shared
\* index and enters the round or leaves the loop.  (solver.cu:73)
RoundCond(t) ==
    /\ pc[t] = "cond" /\ RoundFrame
    /\ request' = [request EXCEPT ![t] = [round |-> @.round + 1, cond |-> curr_decomposition[1], idx |-> -1]]
    /\ pc' = [pc EXCEPT ![t] = IF in_range(curr_decomposition[1]) THEN "arg" ELSE "quit"]
    /\ UNCHANGED <<decomposition, curr_decomposition>>

\* search(tid, stride, *root, curr_decomposition, ...): the argument is
\* read from the shared index.                (solver.cu:75)
RoundSearch(t) ==
    /\ pc[t] = "arg" /\ RoundFrame
    /\ request' = [request EXCEPT ![t].idx = curr_decomposition[1]]
    /\ pc' = [pc EXCEPT ![t] = "sweep"]
    /\ UNCHANGED <<decomposition, curr_decomposition>>

\* Inside search, the barrier of the threads after a sweep of the fixpoint
\* engine; every search runs the engine at least once.
RoundSweep ==
    /\ \A t \in Threads : pc[t] = "sweep"
    /\ RoundFrame
    /\ pc' = [t \in Threads |-> "collect"]
    /\ UNCHANGED <<decomposition, curr_decomposition, request>>

\* if (tid == 0) { ... curr_decomposition = atomicAdd(&decomposition, 1); }
\* after search returned.                     (solver.cu:76-83)
RoundCollect(t) ==
    /\ pc[t] = "collect" /\ RoundFrame
    /\ curr_decomposition' = IF t = 0 THEN <<atomicAdd(decomposition, 1).old>> ELSE curr_decomposition
    /\ decomposition' = IF t = 0 THEN atomicAdd(decomposition, 1).new ELSE decomposition
    /\ pc' = [pc EXCEPT ![t] = "sync"]
    /\ UNCHANGED request

RoundNext ==
    \/ RoundLaunch
    \/ OtherFetch
    \/ RoundBarrier
    \/ \E t \in Threads : RoundCond(t)
    \/ \E t \in Threads : RoundSearch(t)
    \/ RoundSweep
    \/ \E t \in Threads : RoundCollect(t)

SpecRound == RoundInit /\ [][RoundNext]_vars

\* C26: two threads in the same round read the same index in the loop
\* condition, a thread passes to search the index its condition read, and a
\* thread that left the loop did so in the last round any thread entered.
C26_SameIndex ==
    \A t \in Threads, u \in Threads :
        /\ request[t].round = request[u].round => request[t].cond = request[u].cond
        /\ request[t].idx \in {-1, request[t].cond}
        /\ pc[t] = "quit" => request[u].round <= request[t].round

\* Every thread out in its third round, after two searches, every index
\* of the counter handed out.
C26_Witness == /\ \A t \in Threads : pc[t] = "quit" /\ request[t].round = 3
               /\ decomposition = sub_problems + OR_NODES

\* ------------------------------------------------ a second call of solve
\* solve is called again in the same process, on the same problem: trees,
\* best_bound, best_sols and stats are allocated anew and the kernel is
\* launched; nothing assigns the __device__ variable decomposition.
\*                                            (solver.cu:29, 112-123)
SolveAgain ==
    /\ pc[Host] = "done" /\ last.op = "none"
    /\ last' = [op |-> "solve", n |-> 2]
    /\ curr_decomposition' = [w \in Workers |-> 0]
    /\ trees' = [w \in Workers |-> [statistics |-> NewStatistics, best |-> VStoreCopy(problem.root)]]
    /\ best_bound' = Interval(limit_min, limit_max)
    /\ best_sols' = [w \in Workers |-> VStoreCopy(problem.root)]
    /\ stats' = [w \in Workers |-> NewStatistics]
    /\ statistics' = NewStatistics
    /\ searched' = [i \in Indices |-> <<>>]
    /\ pc' = [t \in {Host} \cup Workers |-> IF t = Host THEN "sync" ELSE "launch"]
    /\ UNCHANGED <<store, prev_ub, new_ub, request, history, builder, stop, problem, decomposition>>

RelaunchNext == KernelNext \/ SolveAgain

SpecRelaunch == KernelInit /\ [][RelaunchNext]_vars

\* C27: when a call of solve launches the kernel the counter is 0, and when
\* it has gathered the statistics every index below 2^P was searched once
\* in that call.
C27_CounterReset ==
    /\ (pc[Host] = "sync" /\ \A w \in Workers : pc[w] = "launch") => decomposition = 0
    /\ pc[Host] = "done" => \A i \in 0..(sub_problems - 1) : Len(searched[i]) = 1

\* ------------------------------------------------- the best-solution slots
\* C28: when a block has finished a subproblem that found a solution
\* (latest.best_bound is an objective value) and no earlier subproblem of
\* the block found one as good, best_sols[block] takes the snapshot of that
\* subproblem; otherwise the slot is left as it was.
C28_BestSnapshot ==
    [][\A w \in Workers :
        (pc[w] = "collect" /\ pc'[w] = "loop")
            => LET latest == trees[w].statistics
                   better == /\ latest.solutions > 0 /\ problem.minimize_x # 0
                             /\ (stats[w].solutions = 0 \/ latest.best_bound < stats[w].best_bound)
               IN  IF better THEN best_sols'[w].data = trees[w].best.data
                   ELSE best_sols'[w] = best_sols[w]]_vars

\* ------------------------------------------- the negated view as a set
\* C29: the negated view of a non-empty slot is a non-empty interval that
\* holds exactly the negated values of the slot: an int z is in store[-v]
\* exactly if v can take the value -z; this for every pair of int bounds,
\* the default (INT_MIN, INT_MAX) included.
C29_NegatedValues ==
    [][(last'.op = "read" /\ last'.v < 0 /\ lb(store, -last'.v) <= ub(store, -last'.v)) =>
          /\ last'.lo <= last'.hi
          /\ \A z \in ViewVals \ {limit_min} :
                 (last'.lo <= z /\ z <= last'.hi) <=> (lb(store, -last'.v) <= -z /\ -z <= ub(store, -last'.v))]_vars

\* ------------------------------------------- the managed objects of solve
\* The objects solve allocates in managed memory before the launch
\* (solver.cu:95-115).
Managed == {"branching_vars", "props", "trees", "best_bound", "best_sols", "stats"}

\* The operator delete statements at the end of solve, in program order
\* (solver.cu:145-150).
DeleteOrder == <<"best_bound", "props", "trees", "branching_vars", "best_bound", "best_sols">>

\* How often an object has been released; request is the log of the
\* operator delete calls made so far.
released(o) == Cardinality({i \in DOMAIN request : request[i] = o})

\* One operator delete statement, run by the host once the statistics are
\* gathered.  Releasing a block that is already released is undefined: the
\* call may come back or end the process.
SolveDelete ==
    /\ pc[Host] = "done" /\ Len(request) < Len(DeleteOrder)
    /\ LET o == DeleteOrder[Len(request) + 1]
       IN  /\ request' = Append(request, o)
           /\ \E crash \in IF released(o) > 0 THEN BOOLEAN ELSE {FALSE} :
                  pc' = [pc EXCEPT ![Host] = IF crash THEN "abort"
                                             ELSE IF Len(request) + 1 = Len(DeleteOrder) THEN "return"
                                             ELSE "done"]
    /\ UNCHANGED <<store, last, best_bound, prev_ub, new_ub, history, problem, decomposition,
                   curr_decomposition, trees, stats, best_sols, statistics, searched, builder, stop>>

FreeNext == KernelNext \/ SolveDelete

SpecFree == KernelInit /\ [][FreeNext]_vars

\* C30: no managed object of solve is released twice, and when solve
\* returns each of them has been released once.
C30_ReleasedOnce ==
    /\ \A o \in Managed : released(o) <= 1
    /\ pc[Host] = "return" => \A o \in Managed : released(o) = 1

====
